---- MODULE Spec2Model ----
(***************************************************************************)
(* Model of quantize.py: the module-level setup and preflight checks       *)
(* (lines 22-47), the command runner run() (lines 49-52) and main()        *)
(* (lines 54-94), over an abstract filesystem.                              *)
(*                                                                         *)
(* A path is the sequence of its components (pathlib.Path); str(path) is   *)
(* the sequence with a separator before every component, and a tool that   *)
(* is handed such a string resolves it back to a path.  The filesystem     *)
(* maps every path of interest to "absent", "dir" or the content of a      *)
(* regular file.  The three external operations (snapshot_download, the    *)
(* converter process, the quantizer process) are split into a call step    *)
(* and a return step; their outcome is chosen nondeterministically.        *)
(***************************************************************************)
EXTENDS Naturals, Sequences, FiniteSets

VARIABLES
    pc,          \* position in quantize.py ("L36" is line 36, ...)
    fs,          \* the filesystem: path -> "absent" | "dir" | file content
    fs0,         \* the filesystem at process start (history)
    calls,       \* the external calls made so far, oldest first (history)
    err,         \* the exception that ended the run, "none" while there is none
    exit_code,   \* <<>> while the process runs, <<status>> once it has exited
    f16_conv     \* fs[GGUF_F16_MODEL_PATH] when the converter returned (history)

vars == <<pc, fs, fs0, calls, err, exit_code, f16_conv>>

---------------------------------------------------------------------------
(* Bounds *)

\* the external processes exit with a status in 0..MaxExit
MaxExit == 2

\* no more than MaxCalls external calls are recorded
MaxCalls == 4

---------------------------------------------------------------------------
(* Paths (quantize.py lines 22-37, 58, 64) *)

\* Path.__truediv__: p / "a/b" appends the components of the string
Div(p, parts) == p \o parts

\* str(path): a separator before every component
Str(p) == [i \in 1..(2 * Len(p)) |-> IF i % 2 = 1 THEN "/" ELSE p[i \div 2]]

\* the path a process resolves from a path string
PathOf(s) == [i \in 1..(Len(s) \div 2) |-> s[2 * i]]

\* a command-line argument that is not a path
Lit(s) == <<s>>

ROOT_DIR == <<"ROOT_DIR">>

LLAMA_CPP_DIR == Div(ROOT_DIR, <<"llama.cpp">>)

ARTIFICATS_DIR == Div(LLAMA_CPP_DIR, <<"artifacts">>)

quant_bin == Div(Div(Div(LLAMA_CPP_DIR, <<"build">>), <<"bin">>), <<"llama-quantize">>)

MODEL_NAME == "Qwen2.5-1.5B-Instruct"

MODEL_ID == <<"Qwen/", MODEL_NAME>>

\* f"{MODEL_NAME}_Q4_K_M.gguf", the file name of lines 33 and 37
GgufName == "Qwen2.5-1.5B-Instruct_Q4_K_M.gguf"

GGUF_F16_MODEL_PATH == Div(ARTIFICATS_DIR, <<GgufName>>)

ANDROID_ASSETS_DIR ==
    Div(ROOT_DIR, <<"llama.cpp", "examples", "llama.android", "app", "src",
                    "main", "assets", "models">>)

\* the deployment file placed beside the intermediate file
GGUF_Q4_IN_ARTIFACTS == Div(ARTIFICATS_DIR, <<GgufName>>)

GGUF_Q4_MODEL_PATH == Div(ANDROID_ASSETS_DIR, <<GgufName>>)

hf_dir == Div(ARTIFICATS_DIR, <<"hf_model">>)

hf_to_gguf_convert_script == Div(LLAMA_CPP_DIR, <<"convert_hf_to_gguf.py">>)

\* a file of the downloaded snapshot
SnapshotFile == Div(hf_dir, <<"config.json">>)

sys_executable == Lit("python")

---------------------------------------------------------------------------
(* The filesystem *)

Prefixes(p) == {SubSeq(p, 1, n) : n \in 1..Len(p)}

Paths ==
    UNION {Prefixes(p) : p \in {quant_bin, GGUF_F16_MODEL_PATH, GGUF_Q4_MODEL_PATH,
                                 ANDROID_ASSETS_DIR, hf_to_gguf_convert_script,
                                 SnapshotFile}}

Exists(f, p) == p \in DOMAIN f /\ f[p] # "absent"

IsDir(f, p) == p \in DOMAIN f /\ f[p] = "dir"

IsFile(f, p) == Exists(f, p) /\ ~IsDir(f, p)

\* Path.mkdir(parents=True, exist_ok=True) raises iff the path or one of its
\* ancestors is a regular file
MkdirOK(f, p) == \A q \in Prefixes(p) : ~IsFile(f, q)

\* Path.mkdir(parents=True, exist_ok=True): the missing ancestors and the path
\* become directories
Mkdir(f, p) ==
    [q \in DOMAIN f |-> IF q \in Prefixes(p) /\ f[q] = "absent" THEN "dir" ELSE f[q]]

\* a process writes content c to path p (the parent directory must exist)
WriteFile(f, p, c) ==
    IF p \in DOMAIN f /\ IsDir(f, SubSeq(p, 1, Len(p) - 1)) /\ ~IsDir(f, p)
    THEN [f EXCEPT ![p] = c]
    ELSE f

\* the filesystem at process start, built from what is present
InitFs(root, hasBin, hasScript, artifacts, assets) ==
    [p \in Paths |->
        IF p = ROOT_DIR THEN "dir"
        ELSE IF root # "dir" THEN (IF p = LLAMA_CPP_DIR THEN root ELSE "absent")
        ELSE IF p = LLAMA_CPP_DIR THEN "dir"
        ELSE IF p \in Prefixes(quant_bin)
             THEN (IF ~hasBin THEN "absent" ELSE IF p = quant_bin THEN "bin" ELSE "dir")
        ELSE IF p = hf_to_gguf_convert_script
             THEN (IF hasScript THEN "script" ELSE "absent")
        ELSE IF p = ARTIFICATS_DIR
             THEN (IF artifacts = "none" THEN "absent" ELSE "dir")
        ELSE IF p = GGUF_F16_MODEL_PATH
             THEN (IF artifacts = "stale" THEN "stale" ELSE "absent")
        ELSE IF p \in Prefixes(ANDROID_ASSETS_DIR)
             THEN (IF assets = "none" THEN "absent" ELSE "dir")
        ELSE IF p = GGUF_Q4_MODEL_PATH
             THEN (IF assets = "stale" THEN "stale" ELSE "absent")
        ELSE "absent"]

---------------------------------------------------------------------------
(* Commands (lines 60, 69-75, 79-84) *)

snapshot_download_args == <<MODEL_ID, Str(hf_dir)>>

cmd_convert ==
    <<sys_executable, Str(hf_to_gguf_convert_script), Str(hf_dir),
      Lit("--outfile"), Str(GGUF_F16_MODEL_PATH), Lit("--outtype"), Lit("f16")>>

\* the quantizer handed its own output path as input
cmd_quant_reads_output ==
    <<Str(quant_bin), Str(GGUF_Q4_MODEL_PATH), Str(GGUF_Q4_MODEL_PATH), Lit("Q4_K_M")>>

cmd_quant ==
    <<Str(quant_bin), Str(GGUF_F16_MODEL_PATH), Str(GGUF_Q4_MODEL_PATH), Lit("Q4_K_M")>>

Call(tool, argv) == [tool |-> tool, argv |-> argv, status |-> "running", rc |-> 0]

LastCall == calls[Len(calls)]

\* the last call ends with the given status and exit status
Ended(status, rc) ==
    [calls EXCEPT ![Len(calls)] = [@ EXCEPT !.status = status, !.rc = rc]]

---------------------------------------------------------------------------
(* Errors *)

\* subprocess.run(check=False): a non-zero exit status is not an error
CheckFalse(rc) == FALSE

\* subprocess.run(check=True) raises CalledProcessError iff the status is not 0
CalledProcessError(rc) == rc # 0

\* an exception caught at the call site, which is then run again
RetryOnRaise(site) == site

\* no try/except anywhere: an exception raised at any line ends the run
OnRaise(site) == "Failed"

\* the failing step's exit status handed on as the process's own
PropagatedExitStatus(rc) == rc

\* the interpreter exits with status 1 on an uncaught exception, whatever the
\* status of the failed step (rc is 1 where no process exited)
UncaughtExitStatus(rc) == 1

\* the run ends at `site` with exception e; rc is the failed step's status
Raise(site, e, rc) ==
    LET next == OnRaise(site) IN
    /\ pc' = next
    /\ err' = (IF next = "Failed" THEN e ELSE err)
    /\ exit_code' = (IF next = "Failed" THEN <<UncaughtExitStatus(rc)>> ELSE exit_code)

---------------------------------------------------------------------------
(* Preflight conditions (lines 40, 44, 65) *)

RootIsDir(f) == IsDir(f, LLAMA_CPP_DIR)

\* the check of line 44 left out
QuantBinUnchecked(f) == TRUE

QuantBinExists(f) == Exists(f, quant_bin)

ScriptExists(f) == Exists(f, hf_to_gguf_convert_script)

---------------------------------------------------------------------------
(* Initial state *)

Init ==
    /\ pc = "L36"
    /\ \E root \in {"absent", "file", "dir"}, hasBin, hasScript \in BOOLEAN,
          artifacts, assets \in {"none", "empty", "stale"} :
          /\ root # "dir" =>
                ~hasBin /\ ~hasScript /\ artifacts = "none" /\ assets = "none"
          /\ fs = InitFs(root, hasBin, hasScript, artifacts, assets)
    /\ fs0 = fs
    /\ calls = <<>>
    /\ err = "none"
    /\ exit_code = <<>>
    /\ f16_conv = "absent"

---------------------------------------------------------------------------
(* Module-level statements (lines 35-47) *)

\* line 36: ANDROID_ASSETS_DIR.mkdir(parents=True, exist_ok=True)
MkAssetsDir ==
    /\ pc = "L36"
    /\ IF MkdirOK(fs, ANDROID_ASSETS_DIR)
       THEN /\ fs' = Mkdir(fs, ANDROID_ASSETS_DIR)
            /\ pc' = "L40"
            /\ UNCHANGED <<err, exit_code>>
       ELSE /\ Raise("L36", "FileExistsError", 1)
            /\ UNCHANGED fs
    /\ UNCHANGED <<fs0, calls, f16_conv>>

\* lines 40-41: if not LLAMA_CPP_DIR.is_dir(): raise FileNotFoundError
CheckRoot ==
    /\ pc = "L40"
    /\ IF RootIsDir(fs)
       THEN pc' = "L44" /\ UNCHANGED <<err, exit_code>>
       ELSE Raise("L40", "llama.cpp not found", 1)
    /\ UNCHANGED <<fs, fs0, calls, f16_conv>>

\* lines 44-45: if not quant_bin.exists(): raise FileNotFoundError
CheckBin ==
    /\ pc = "L44"
    /\ IF QuantBinExists(fs)
       THEN pc' = "L47" /\ UNCHANGED <<err, exit_code>>
       ELSE Raise("L44", "llama-quantize binary not found", 1)
    /\ UNCHANGED <<fs, fs0, calls, f16_conv>>

\* line 47: ARTIFICATS_DIR.mkdir(parents=True, exist_ok=True)
MkArtifactsDir ==
    /\ pc = "L47"
    /\ IF MkdirOK(fs, ARTIFICATS_DIR)
       THEN /\ fs' = Mkdir(fs, ARTIFICATS_DIR)
            /\ pc' = "L59"
            /\ UNCHANGED <<err, exit_code>>
       ELSE /\ Raise("L47", "FileExistsError", 1)
            /\ UNCHANGED fs
    /\ UNCHANGED <<fs0, calls, f16_conv>>

---------------------------------------------------------------------------
(* main() (lines 54-89) and the entry point (lines 92-94) *)

\* line 59: hf_dir.mkdir(parents=True, exist_ok=True)
MkHfDir ==
    /\ pc = "L59"
    /\ IF MkdirOK(fs, hf_dir)
       THEN /\ fs' = Mkdir(fs, hf_dir)
            /\ pc' = "L60"
            /\ UNCHANGED <<err, exit_code>>
       ELSE /\ Raise("L59", "FileExistsError", 1)
            /\ UNCHANGED fs
    /\ UNCHANGED <<fs0, calls, f16_conv>>

\* line 60: snapshot_download(...) is entered
DownloadCall ==
    /\ pc = "L60"
    /\ Len(calls) < MaxCalls
    /\ calls' = Append(calls, Call("snapshot_download", snapshot_download_args))
    /\ pc' = "downloading"
    /\ UNCHANGED <<fs, fs0, err, exit_code, f16_conv>>

\* line 60: snapshot_download(...) returns, or raises
DownloadReturn ==
    /\ pc = "downloading"
    /\ LET dir == PathOf(LastCall.argv[2]) IN
       \E ok \in BOOLEAN, wrote \in BOOLEAN :
          IF ok
          THEN /\ wrote
               /\ fs' = WriteFile(fs, Div(dir, <<"config.json">>), "snapshot")
               /\ calls' = Ended("returned", 0)
               /\ pc' = "L65"
               /\ UNCHANGED <<err, exit_code>>
          ELSE /\ fs' = (IF wrote
                         THEN WriteFile(fs, Div(dir, <<"config.json">>), "partial")
                         ELSE fs)
               /\ calls' = Ended("raised", 0)
               /\ Raise("L60", "download error", 1)
    /\ UNCHANGED <<fs0, f16_conv>>

\* lines 64-66: if not hf_to_gguf_convert_script.exists(): raise FileNotFoundError
CheckScript ==
    /\ pc = "L65"
    /\ IF ScriptExists(fs)
       THEN pc' = "L76" /\ UNCHANGED <<err, exit_code>>
       ELSE Raise("L65", "convert script not found", 1)
    /\ UNCHANGED <<fs, fs0, calls, f16_conv>>

\* run(cmd) up to the start of the process (lines 51-52)
run_spawn(tool, cmd, waiting) ==
    /\ Len(calls) < MaxCalls
    /\ calls' = Append(calls, Call(tool, cmd))
    /\ pc' = waiting
    /\ UNCHANGED <<fs, fs0, err, exit_code, f16_conv>>

\* run(cmd) from the end of the process (line 52): the process could not be
\* started, or exited with status rc having left fs2 behind
run_return(site, after, launched, rc, fs2) ==
    /\ fs' = (IF launched THEN fs2 ELSE fs)
    /\ IF ~launched
       THEN /\ calls' = Ended("nolaunch", 0)
            /\ Raise(site, "launch error", 1)
       ELSE /\ calls' = Ended("returned", rc)
            /\ IF CalledProcessError(rc)
               THEN Raise(site, "CalledProcessError", rc)
               ELSE pc' = after /\ UNCHANGED <<err, exit_code>>
    /\ UNCHANGED fs0

\* line 76: run(cmd_convert), the converter is started
ConvertSpawn ==
    /\ pc = "L76"
    /\ run_spawn("convert", cmd_convert, "converting")

\* line 76: run(cmd_convert), the converter has ended
ConvertReturn ==
    /\ pc = "converting"
    /\ LET src == PathOf(LastCall.argv[3])
           out == PathOf(LastCall.argv[5]) IN
       \E launched \in BOOLEAN, rc \in 0..MaxExit, wrote \in BOOLEAN :
          /\ rc = 0 => wrote /\ IsFile(fs, Div(src, <<"config.json">>))
          /\ ~launched => rc = 0 /\ wrote
          /\ LET fs2 == IF ~wrote THEN fs
                        ELSE WriteFile(fs, out, IF rc = 0 THEN "f16" ELSE "partial") IN
             /\ run_return("L76", "L85", launched, rc, fs2)
             /\ f16_conv' = (IF launched /\ out \in DOMAIN fs2 THEN fs2[out] ELSE f16_conv)

\* line 85: run(cmd_quant), the quantizer is started
QuantSpawn ==
    /\ pc = "L85"
    /\ run_spawn("quantize", cmd_quant, "quantizing")

\* line 85: run(cmd_quant), the quantizer has ended
QuantReturn ==
    /\ pc = "quantizing"
    /\ LET src == PathOf(LastCall.argv[2])
           out == PathOf(LastCall.argv[3]) IN
       \E launched \in BOOLEAN, rc \in 0..MaxExit, wrote \in BOOLEAN :
          /\ rc = 0 => wrote /\ IsFile(fs, src)
          /\ ~launched => rc = 0 /\ wrote
          /\ LET fs2 == IF ~wrote THEN fs
                        ELSE WriteFile(fs, out, IF rc = 0 THEN "q4" ELSE "partial") IN
             run_return("L85", "L87", launched, rc, fs2)
    /\ UNCHANGED f16_conv

\* lines 87-89: the closing log lines; main() returns
LogDone ==
    /\ pc = "L87"
    /\ pc' = "L94"
    /\ UNCHANGED <<fs, fs0, calls, err, exit_code, f16_conv>>

\* line 94: the final print; the interpreter exits with status 0
PrintAndExit ==
    /\ pc = "L94"
    /\ pc' = "Done"
    /\ exit_code' = <<0>>
    /\ UNCHANGED <<fs, fs0, calls, err, f16_conv>>

---------------------------------------------------------------------------
(* Specifications *)

\* the steps the script takes by itself
ProgramStep ==
    \/ MkAssetsDir
    \/ CheckRoot
    \/ CheckBin
    \/ MkArtifactsDir
    \/ MkHfDir
    \/ DownloadCall
    \/ CheckScript
    \/ ConvertSpawn
    \/ QuantSpawn
    \/ LogDone
    \/ PrintAndExit

\* the returns of the three blocking operations
BlockingReturn ==
    \/ DownloadReturn
    \/ ConvertReturn
    \/ QuantReturn

Next == ProgramStep \/ BlockingReturn

Spec == Init /\ [][Next]_vars

\* the interpreter always takes its next step; nothing makes a blocking
\* operation return
LiveSpec == Spec /\ WF_vars(ProgramStep)

---------------------------------------------------------------------------
(* The pipeline states of the design *)

StateOf(p) ==
    CASE p \in {"L36", "L40", "L44"} -> "Start"
      [] p \in {"L47", "L59", "L60", "downloading"} -> "PreflightOK"
      [] p \in {"L65", "L76", "converting"} -> "Downloaded"
      [] p \in {"L85", "quantizing"} -> "Converted"
      [] p \in {"L87", "L94"} -> "Quantized"
      [] p = "Done" -> "Done"
      [] OTHER -> "Failed"

Successor(s) ==
    CASE s = "Start" -> "PreflightOK"
      [] s = "PreflightOK" -> "Downloaded"
      [] s = "Downloaded" -> "Converted"
      [] s = "Converted" -> "Quantized"
      [] s = "Quantized" -> "Done"
      [] OTHER -> s

Terminal == pc \in {"Done", "Failed"}

RootAbsentAtStart == ~IsDir(fs0, LLAMA_CPP_DIR)

BinAbsentAtStart == ~Exists(fs0, quant_bin)

---------------------------------------------------------------------------
(* Properties *)

Launched(c) == c.status = "returned"

Succeeded(c) == c.status = "returned" /\ c.rc = 0

Failing(c) == c.status \in {"raised", "nolaunch"} \/ (c.status = "returned" /\ c.rc # 0)

\* the path strings a call reads and those it writes
Reads(c) ==
    CASE c.tool = "convert" -> {c.argv[2], c.argv[3]}
      [] c.tool = "quantize" -> {c.argv[1], c.argv[2]}
      [] OTHER -> {}

Writes(c) ==
    CASE c.tool = "convert" -> {c.argv[5]}
      [] c.tool = "quantize" -> {c.argv[3]}
      [] OTHER -> {c.argv[2]}

PreflightErrors == {"llama.cpp not found", "llama-quantize binary not found"}

ConfigErrors == PreflightErrors \cup {"convert script not found"}

\* C1: when the toolchain root is not a directory or the quantizer binary is
\* absent at process start, the run never leaves preflight and makes no
\* external call (no download, no converter, no quantizer).
C1_NoExternalCallWithoutToolchain ==
    (RootAbsentAtStart \/ BinAbsentAtStart) =>
        calls = <<>> /\ pc \in {"L36", "L40", "L44", "Failed"}

C1_Witness ==
    /\ pc = "Failed"
    /\ ~RootAbsentAtStart /\ BinAbsentAtStart
    /\ err = "llama-quantize binary not found"
    /\ calls = <<>>

\* C2: nothing on the filesystem changes before both preflight checks have
\* passed, so a run that fails preflight leaves the filesystem as it found it.
C2_NoFsChangeBeforePreflightPasses ==
    (pc \in {"L36", "L40", "L44"} \/ (pc = "Failed" /\ err \in PreflightErrors)) =>
        fs = fs0

\* C3: a run started without the toolchain root fails with the error naming the
\* root, and the error naming the binary is raised only when the root was
\* present and the binary absent.
C3_ErrorNamesMissingPath ==
    /\ (pc = "Failed" /\ fs0[LLAMA_CPP_DIR] = "absent") => err = "llama.cpp not found"
    /\ err = "llama-quantize binary not found" =>
          IsDir(fs0, LLAMA_CPP_DIR) /\ BinAbsentAtStart

\* C4: every configuration error (root, binary or converter script missing) is
\* raised before any external call is made.
C4_ConfigErrorBeforeExternalCall ==
    err \in ConfigErrors => calls = <<>>

\* C5: the pipeline state only moves to its successor in Start, PreflightOK,
\* Downloaded, Converted, Quantized, Done, or from a non-terminal state to
\* Failed; Done and Failed are never left; and a stage is started only when
\* every earlier stage has completed successfully.
C5_LinearStateMachine ==
    [][ /\ \/ StateOf(pc') = StateOf(pc)
           \/ StateOf(pc') = Successor(StateOf(pc))
           \/ (~Terminal /\ StateOf(pc') = "Failed")
        /\ Terminal => pc' = pc
        /\ StateOf(pc') \notin {"Start", "Failed"} => IsDir(fs', LLAMA_CPP_DIR)
                                                       /\ Exists(fs', quant_bin)
        /\ \A i \in 2..Len(calls') : Succeeded(calls'[i - 1])
        /\ StateOf(pc') \in {"Quantized", "Done"} =>
              \A i \in 1..Len(calls') : Succeeded(calls'[i]) ]_vars

C5_Witness ==
    /\ pc = "Done"
    /\ [i \in 1..Len(calls) |-> calls[i].tool] = <<"snapshot_download", "convert", "quantize">>

\* C6: a command that exits non-zero or cannot be started ends the run: it is
\* the last external call, the quantizer is only ever invoked after the
\* converter exited with status 0, and no command is invoked twice.
C6_FailedCommandAbortsRun ==
    /\ \A i \in 1..Len(calls) :
          /\ Failing(calls[i]) => i = Len(calls) /\ pc = "Failed"
          /\ calls[i].tool = "quantize" =>
                \E j \in 1..(i - 1) : calls[j].tool = "convert" /\ Succeeded(calls[j])
    /\ \A i, j \in 1..Len(calls) : calls[i].tool = calls[j].tool => i = j

C6_Witness ==
    /\ pc = "Failed"
    /\ Len(calls) = 2
    /\ calls[2].tool = "convert" /\ Launched(calls[2]) /\ calls[2].rc # 0

\* C7 (as stated): the exit code is 0 exactly when the run reached Done, and a
\* run ended by a non-zero exit of the converter or quantizer exits with that
\* step's exit status.
C7_ExitStatusPropagated ==
    /\ exit_code = <<0>> <=> pc = "Done"
    /\ (pc = "Failed" /\ err = "CalledProcessError") => exit_code = <<LastCall.rc>>

\* C7 (amended): the exit code is 0 exactly when the run reached Done; every
\* failed run exits with status 1, whatever the exit status of the failing
\* step; and the process has no exit code before it reaches Done or Failed.
C7_ExitCode ==
    /\ exit_code = <<0>> <=> pc = "Done"
    /\ pc = "Failed" => exit_code = <<1>>
    /\ ~Terminal => exit_code = <<>>

C7_Witness ==
    /\ pc = "Failed"
    /\ err = "CalledProcessError"
    /\ LastCall.rc = 2
    /\ exit_code = <<1>>

\* C8: the quantizer is given an output path in the asset directory that
\* differs from its input path under artifacts/; from its start on, the
\* intermediate file keeps the content the converter left; and when it exits
\* with status 0 the quantized file is at exactly the output path.
C8_QuantizerKeepsInput ==
    \A i \in 1..Len(calls) :
        calls[i].tool = "quantize" =>
            LET src == PathOf(calls[i].argv[2])
                out == PathOf(calls[i].argv[3]) IN
            /\ src # out
            /\ SubSeq(src, 1, Len(src) - 1) = ARTIFICATS_DIR
            /\ SubSeq(out, 1, Len(out) - 1) = ANDROID_ASSETS_DIR
            /\ src[Len(src)] = GgufName /\ out[Len(out)] = GgufName
            /\ fs[src] = f16_conv
            /\ Succeeded(calls[i]) => fs[out] = "q4"

C8_Witness ==
    /\ pc = "L87"
    /\ fs0[GGUF_F16_MODEL_PATH] = "stale"
    /\ fs[GGUF_F16_MODEL_PATH] = "f16"
    /\ fs[GGUF_Q4_MODEL_PATH] = "q4"

\* C9: the directory given to the download is the converter's input, the
\* converter's --outfile is the quantizer's input, and no call reads a path
\* that a later call writes.
C9_PathsFlowForward ==
    \A i \in 1..Len(calls) :
        /\ calls[i].tool = "convert" =>
              \E j \in 1..(i - 1) : /\ calls[j].tool = "snapshot_download"
                                    /\ calls[i].argv[3] = calls[j].argv[2]
        /\ calls[i].tool = "quantize" =>
              \E j \in 1..(i - 1) : /\ calls[j].tool = "convert"
                                    /\ calls[j].argv[4] = Lit("--outfile")
                                    /\ calls[i].argv[2] = calls[j].argv[5]
        /\ \A j \in (i + 1)..Len(calls) : Reads(calls[i]) \cap Writes(calls[j]) = {}

C9_Witness ==
    /\ Len(calls) = 3
    /\ calls[3].tool = "quantize"
    /\ calls[3].argv[2] = Str(GGUF_F16_MODEL_PATH)
    /\ calls[2].argv[3] = Str(hf_dir)

\* C10: every run ends in Done for good or in Failed for good, unless it waits
\* forever on the download, on the converter or on the quantizer.
C10_Termination ==
    \/ <>[](pc = "Done")
    \/ <>[](pc = "Failed")
    \/ <>[](pc = "downloading")
    \/ <>[](pc = "converting")
    \/ <>[](pc = "quantizing")

C10_Witness ==
    /\ Terminal
    /\ Len(calls) = 3
    /\ \A i \in 1..3 : calls[i].status # "running"

====
